---- MODULE Spec2Model ----
(***************************************************************************)
(* Context assembly for tab-autocomplete: the greedy token-budget fill,    *)
(* snippet ranking/merging, the similarity, the range algebra and range    *)
(* exclusion, the syntax chunker, the directory harvester, the bounded     *)
(* file reader and the prompt constructors.                                *)
(*                                                                         *)
(* Text is modelled as a non-empty sequence of lines (what split("\n")     *)
(* returns); the empty string is the one-line text <<"">>.                 *)
(***************************************************************************)
EXTENDS Integers, Sequences, FiniteSets, TLC

VARIABLES
  \* --- greedy fill (fillPromptWithSnippets and a re-run on its output)
  fillPc, fillIn, fillBudget, modelName, fillOut, refillOut,
  \* --- deduplication (deduplicateSnippets on a list of scored snippets)
  mergePc, mergeIn, mergeOut,
  \* --- syntax chunker (fastChunk / processNode / collapseLargeBlock)
  chunkPc,          \* per invocation: where the generator is suspended
  chunkTree,        \* per invocation: the root node of the parsed file
  chunkParser,      \* per invocation: whether getParserForFile finds a parser
  chunkStack,       \* per invocation: the collapseLargeBlock calls in progress
  chunkIter,        \* per invocation: the for-of iterator (array, index)
  emitted,          \* per invocation: the fragments yielded so far
  arrays,           \* every array created by `collectedChunks = []`
  collectedChunks,  \* the module-level binding: an index into arrays
  \* --- directory harvesting (the workspaceDirs loop of the orchestrator)
  fs,               \* the file system: parent, readable, file per directory
  workspaceDirs,    \* what getWorkspaceDirs returns
  walkPc, walkRoot, \* position in the loop over workspaceDirs
  walkQueue,        \* paths of the current root still to be read
  walkVisited,      \* the directories readdir was called on, in order
  walkFiles,        \* every path getFilesFromDirectory returned, in order
  walkSnippets,     \* the snippets pushed so far
  \* --- one invocation of a prompt constructor
  orchPc, orchVariant,  \* position, and which constructor is running
  orchOptions,      \* the options argument
  orchIn,           \* filepath, cursorLine, prefix, suffix, window, treePath
  orchSnippets,     \* the local `snippets`
  orchScored,       \* the local `scoredSnippets`
  orchFinal,        \* the local `finalSnippets`
  orchWork,         \* the stages that have run
  orchResult,       \* the `snippets` field of the returned object
  \* --- one call of the bounded file reader
  readPc,           \* position of the call
  readFile,         \* the file: size in bytes, and the call that throws
  readMaxSize,      \* the maxSize argument
  readResult,       \* the string returned
  \* --- calls of jaccardSimilarity on two texts
  simPc,            \* position
  simA,             \* the first text
  simB,             \* the second text
  simAB,            \* jaccardSimilarity(a, b)
  simBA,            \* jaccardSimilarity(b, a)
  simAA,            \* jaccardSimilarity(a, a)
  \* --- calls of the range algebra on two ranges
  rangePc,          \* position
  rangeA,           \* the first range (orig)
  rangeB,           \* the second range (remove)
  rangeInter,       \* rangeIntersectionByLines(a, b)
  rangeDiff,        \* rangeDifferenceByLines(a, b)
  rangeSelfInter,   \* rangeIntersectionByLines(a, a)
  rangeSelfDiff,    \* rangeDifferenceByLines(a, a)
  \* --- two calls of rankSnippets on the same snippet objects
  rankPc,           \* position
  rankIn,           \* the caller's snippets before the first call
  rankWindow,       \* the windowAroundCursor argument
  rankHeap,         \* the caller's snippet objects as they are now
  rankOut,          \* what the first call returned
  rerankOut         \* what the second call returned

fillVars == <<fillPc, fillIn, fillBudget, modelName, fillOut, refillOut>>
mergeVars == <<mergePc, mergeIn, mergeOut>>
chunkVars == <<chunkPc, chunkTree, chunkParser, chunkStack, chunkIter, emitted,
               arrays, collectedChunks>>

walkVars == <<fs, workspaceDirs, walkPc, walkRoot, walkQueue, walkVisited,
              walkFiles, walkSnippets>>

orchVars == <<orchPc, orchVariant, orchOptions, orchIn, orchSnippets,
              orchScored, orchFinal, orchWork, orchResult>>

readVars == <<readPc, readFile, readMaxSize, readResult>>

simVars == <<simPc, simA, simB, simAB, simBA, simAA>>

rangeVars == <<rangePc, rangeA, rangeB, rangeInter, rangeDiff, rangeSelfInter,
               rangeSelfDiff>>

rankVars == <<rankPc, rankIn, rankWindow, rankHeap, rankOut, rerankOut>>

vars == <<fillVars, mergeVars, chunkVars, walkVars, orchVars, readVars,
          simVars, rangeVars, rankVars>>

\* what each component leaves alone
notFill == <<mergeVars, chunkVars, walkVars, orchVars, readVars, simVars,
             rangeVars, rankVars>>
notMerge == <<fillVars, chunkVars, walkVars, orchVars, readVars, simVars,
              rangeVars, rankVars>>
notChunk == <<fillVars, mergeVars, walkVars, orchVars, readVars, simVars,
              rangeVars, rankVars>>
notWalk == <<fillVars, mergeVars, chunkVars, orchVars, readVars, simVars,
             rangeVars, rankVars>>
notOrch == <<fillVars, mergeVars, chunkVars, walkVars, readVars, simVars,
             rangeVars, rankVars>>
notRead == <<fillVars, mergeVars, chunkVars, walkVars, orchVars, simVars,
             rangeVars, rankVars>>
notSim == <<fillVars, mergeVars, chunkVars, walkVars, orchVars, readVars,
            rangeVars, rankVars>>
notRange == <<fillVars, mergeVars, chunkVars, walkVars, orchVars, readVars,
              simVars, rankVars>>
notRank == <<fillVars, mergeVars, chunkVars, walkVars, orchVars, readVars,
             simVars, rangeVars>>

Invocations == {1, 2}

IdleFill ==
  /\ fillPc = "idle"
  /\ fillIn = <<>>
  /\ fillBudget = 0
  /\ modelName = [tok |-> [l \in {"", "a"} |-> 0], nl |-> 0]
  /\ fillOut = <<>>
  /\ refillOut = <<>>

IdleMerge ==
  /\ mergePc = "idle"
  /\ mergeIn = <<>>
  /\ mergeOut = <<>>

IdleChunk ==
  /\ chunkPc = [i \in Invocations |-> "idle"]
  /\ chunkTree = [i \in Invocations |-> [size |-> 0, kids |-> <<>>]]
  /\ chunkParser = [i \in Invocations |-> FALSE]
  /\ chunkStack = [i \in Invocations |-> <<>>]
  /\ chunkIter = [i \in Invocations |-> [array |-> 1, index |-> 0]]
  /\ emitted = [i \in Invocations |-> <<>>]
  /\ arrays = << <<>> >>
  /\ collectedChunks = 1

IdleWalk ==
  /\ fs = [parent |-> <<0>>, readable |-> <<FALSE>>, file |-> <<"none">>]
  /\ workspaceDirs = <<>>
  /\ walkPc = "idle"
  /\ walkRoot = 0
  /\ walkQueue = <<>>
  /\ walkVisited = <<>>
  /\ walkFiles = <<>>
  /\ walkSnippets = <<>>

IdleOrch ==
  /\ orchPc = "idle"
  /\ orchVariant = "none"
  /\ orchOptions = <<>>
  /\ orchIn = <<>>
  /\ orchSnippets = <<>>
  /\ orchScored = <<>>
  /\ orchFinal = <<>>
  /\ orchWork = {}
  /\ orchResult = <<>>

IdleRead ==
  /\ readPc = "idle"
  /\ readFile = <<>>
  /\ readMaxSize = 0
  /\ readResult = <<>>

IdleSim ==
  /\ simPc = "idle"
  /\ simA = <<>>
  /\ simB = <<>>
  /\ simAB = 0
  /\ simBA = 0
  /\ simAA = 0

IdleRange ==
  /\ rangePc = "idle"
  /\ rangeA = <<>>
  /\ rangeB = <<>>
  /\ rangeInter = <<>>
  /\ rangeDiff = <<>>
  /\ rangeSelfInter = <<>>
  /\ rangeSelfDiff = <<>>

IdleRank ==
  /\ rankPc = "idle"
  /\ rankIn = <<>>
  /\ rankWindow = <<>>
  /\ rankHeap = <<>>
  /\ rankOut = <<>>
  /\ rerankOut = <<>>

(***************************************************************************)
(* Bounds of the model                                                     *)
(***************************************************************************)
MaxLines == 2      \* lines per snippet contents
MaxSnips == 2      \* snippets per candidate list
MaxBudget == 3     \* largest snippet token budget tried (smallest is -1)
MaxMergeLine == 3  \* largest line number of a snippet to deduplicate
MaxMergeSnips == 2 \* snippets per list to deduplicate
MaxTreeNodes == 2  \* nodes below the root of a parsed file
MaxDirs == 3       \* directories of the file system

LineSet == {"", "a"}
TokCosts == {0, 1, 2}

(***************************************************************************)
(* Generic helpers                                                         *)
(***************************************************************************)
SeqsUpTo(S, n) == UNION {[1..k -> S] : k \in 0..n}

Texts(n) == UNION {[1..k -> LineSet] : k \in 1..n}

Max2(a, b) == IF a >= b THEN a ELSE b

Min2(a, b) == IF a <= b THEN a ELSE b

EmptyString == <<"">>

\* a position of a range: { line, character }
Pos(line, character) == [line |-> line, character |-> character]

MkSnippet(filepath, startLine, endLine, contents, score) ==
  [filepath |-> filepath,
   range |-> [start |-> Pos(startLine, 0), end |-> Pos(endLine, 0)],
   contents |-> contents,
   score |-> score]

(***************************************************************************)
(* The external token counter.  A model-specific counter is a cost per     *)
(* line plus a cost per newline separator; modelName selects the counter.  *)
(***************************************************************************)
TokenCounters == [tok : [LineSet -> TokCosts], nl : {0, 1}]

RECURSIVE SumLineTokens(_, _, _)
SumLineTokens(text, i, counter) ==
  IF i > Len(text) THEN 0
  ELSE counter.tok[text[i]] + SumLineTokens(text, i + 1, counter)

countTokens(text, counter) ==
  SumLineTokens(text, 1, counter) + counter.nl * (Len(text) - 1)

(***************************************************************************)
(* fillPromptWithSnippets                                                  *)
(***************************************************************************)
\* variant of fitsBudget that is off by one token
fitsBudget_offByOne(tokensRemaining, tokenCount) ==
  tokensRemaining - tokenCount >= -1

\* the test `tokensRemaining - tokenCount >= 0` (whole snippet and line alike)
fitsBudget(tokensRemaining, tokenCount) ==
  tokensRemaining - tokenCount >= 0

\* variant of appendLine that always writes the separator
appendLine_alwaysSeparator(partialContents, line) ==
  Append(partialContents, line)

\* partialContents += (partialContents ? '\n' : '') + line
appendLine(partialContents, line) ==
  IF partialContents # EmptyString
    THEN Append(partialContents, line)
    ELSE <<line>>

\* the inner loop over the lines of the first snippet that does not fit whole
RECURSIVE partialFill(_, _, _, _, _)
partialFill(lines, j, tokensRemaining, partialContents, counter) ==
  IF j > Len(lines) THEN partialContents
  ELSE LET lineTokenCount == countTokens(<<lines[j]>>, counter)
       IN IF fitsBudget(tokensRemaining, lineTokenCount)
            THEN partialFill(lines, j + 1, tokensRemaining - lineTokenCount,
                             appendLine(partialContents, lines[j]), counter)
            ELSE partialContents

RECURSIVE fillLoop(_, _, _, _, _)
fillLoop(snippets, i, tokensRemaining, keptSnippets, counter) ==
  IF i > Len(snippets) THEN keptSnippets
  ELSE LET snippet == snippets[i]
           tokenCount == countTokens(snippet.contents, counter)
       IN IF fitsBudget(tokensRemaining, tokenCount)
            THEN fillLoop(snippets, i + 1, tokensRemaining - tokenCount,
                          Append(keptSnippets, snippet), counter)
            ELSE LET partialContents ==
                       partialFill(snippet.contents, 1, tokensRemaining,
                                   EmptyString, counter)
                 IN IF partialContents # EmptyString
                      THEN Append(keptSnippets,
                                  [snippet EXCEPT !.contents = partialContents])
                      ELSE keptSnippets

fillPromptWithSnippets(snippets, maxSnippetTokens, counter) ==
  fillLoop(snippets, 1, maxSnippetTokens, <<>>, counter)

RECURSIVE TotalTokens(_, _, _)
TotalTokens(snippets, i, counter) ==
  IF i > Len(snippets) THEN 0
  ELSE countTokens(snippets[i].contents, counter)
         + TotalTokens(snippets, i + 1, counter)

(***************************************************************************)
(* Specification of the fill: inputs are drawn in Init, FillRun applies    *)
(* the fill, FillRerun applies it again to its own output.                 *)
(***************************************************************************)
FillCandidates ==
  {MkSnippet("A", 0, Len(c) - 1, c, 5) : c \in Texts(MaxLines)}

InitFill ==
  /\ fillPc = "ready"
  /\ fillIn \in SeqsUpTo(FillCandidates, MaxSnips)
  /\ fillBudget \in -1..MaxBudget
  /\ modelName \in TokenCounters
  /\ fillOut = <<>>
  /\ refillOut = <<>>

FillRun ==
  /\ fillPc = "ready"
  /\ fillOut' = fillPromptWithSnippets(fillIn, fillBudget, modelName)
  /\ fillPc' = "filled"
  /\ UNCHANGED <<fillIn, fillBudget, modelName, refillOut>>
  /\ UNCHANGED notFill

FillRerun ==
  /\ fillPc = "filled"
  /\ refillOut' = fillPromptWithSnippets(fillOut, fillBudget, modelName)
  /\ fillPc' = "refilled"
  /\ UNCHANGED <<fillIn, fillBudget, modelName, fillOut>>
  /\ UNCHANGED notFill

NextFill == FillRun \/ FillRerun


(***************************************************************************)
(* Claims about the fill                                                   *)
(***************************************************************************)
\* C1: the snippets returned by fillPromptWithSnippets never count, in total
\* (the sum of countTokens(contents), a partially kept last snippet
\* included), more tokens than the budget.  Stated for budgets >= 0.
C1_FillWithinBudget ==
  (fillPc # "ready" /\ fillBudget >= 0)
    => TotalTokens(fillOut, 1, modelName) <= fillBudget

\* C6: fillPromptWithSnippets is idempotent: applied to its own output with
\* the same budget and counter it returns that output unchanged.
C6_FillIdempotent ==
  fillPc = "refilled" => refillOut = fillOut

\* C6 witness: a re-run whose input ends in a snippet that was kept line by
\* line and does not fit whole, so the re-run goes through the line loop
\* again, after a first snippet that was kept whole.
C6_Witness ==
  /\ fillPc = "refilled"
  /\ Len(fillIn) = 2
  /\ Len(fillOut) = 2
  /\ countTokens(fillOut[1].contents, modelName) > 0
  /\ TotalTokens(fillOut, 1, modelName) > fillBudget
  /\ refillOut = fillOut

\* C7 (as claimed): with a budget of 0 or less the fill returns the empty
\* list for every non-empty candidate list.
C7_NonPositiveBudgetEmpty ==
  (fillPc # "ready" /\ fillBudget <= 0 /\ fillIn # <<>>) => fillOut = <<>>

\* C7 (amended): a negative budget yields the empty list; a budget of 0
\* keeps only content that counts 0 tokens, so the result is empty whenever
\* the first candidate and each of its non-empty lines count >= 1 token.
C7_NonPositiveBudgetKeepsNoTokens ==
  fillPc # "ready" =>
    /\ fillBudget < 0 => fillOut = <<>>
    /\ fillBudget = 0 =>
         \A i \in 1..Len(fillOut) :
           \A j \in 1..Len(fillOut[i].contents) :
             countTokens(<<fillOut[i].contents[j]>>, modelName) = 0
    /\ ( /\ fillBudget = 0
         /\ fillIn # <<>>
         /\ countTokens(fillIn[1].contents, modelName) >= 1
         /\ \A j \in 1..Len(fillIn[1].contents) :
              fillIn[1].contents[j] # ""
                => countTokens(<<fillIn[1].contents[j]>>, modelName) >= 1 )
       => fillOut = <<>>

\* C7 witness: budget 0, two candidates, the first one counting tokens, and
\* the fill has returned the empty list.
C7_Witness ==
  /\ fillPc = "filled"
  /\ fillBudget = 0
  /\ Len(fillIn) = 2
  /\ countTokens(fillIn[1].contents, modelName) >= 1
  /\ countTokens(fillIn[2].contents, modelName) = 0
  /\ fillOut = <<>>

\* the number of leading snippets that fit whole, one after the other
RECURSIVE FitWhole(_, _, _, _)
FitWhole(snippets, i, tokensRemaining, counter) ==
  IF i > Len(snippets) THEN 0
  ELSE LET tokenCount == countTokens(snippets[i].contents, counter)
       IN IF tokensRemaining - tokenCount >= 0
            THEN 1 + FitWhole(snippets, i + 1, tokensRemaining - tokenCount,
                              counter)
            ELSE 0

IsLinePrefix(part, contents) ==
  \E n \in 1..Len(contents) : part = SubSeq(contents, 1, n)

\* C16: the fill returns the first k input snippets unchanged, k being the
\* number of leading snippets that fit whole, optionally followed by
\* snippet k+1 cut down to a line-prefix of its contents; nothing after
\* snippet k+1 is returned.
C16_PrefixGreedy ==
  fillPc # "ready"
  => LET k == FitWhole(fillIn, 1, fillBudget, modelName)
     IN /\ Len(fillOut) \in {k, k + 1}
        /\ Len(fillOut) <= Len(fillIn)
        /\ \A i \in 1..k : fillOut[i] = fillIn[i]
        /\ Len(fillOut) = k + 1
             => \E part \in Texts(MaxLines) :
                  /\ IsLinePrefix(part, fillIn[k + 1].contents)
                  /\ fillOut[k + 1] = [fillIn[k + 1] EXCEPT !.contents = part]

(***************************************************************************)
(* Similarity scorer.  The symbols symbolRegex matches in a line are       *)
(* tabulated for the lines the model draws: identifiers, blanks,           *)
(* punctuation, digits.  Scores are in tenths (0.8 is 8).                  *)
(***************************************************************************)
NoScore == -1

\* the matches of /\b[A-Za-z_][A-Za-z0-9_]*\b/g in one line
LineSymbols(line) ==
  CASE line = "a" -> {"a"}
    [] line = "b" -> {"b"}
    [] line = "a b" -> {"a", "b"}
    [] line = "A" -> {"A"}
    [] line \in {"", " ", "+", "1", "1a"} -> {}

getSymbolsForSnippet_fast(snippet) ==
  UNION {LineSymbols(snippet[i]) : i \in 1..Len(snippet)}

\* variant of jaccardSimilarity that divides by the size of the first set
jaccardSimilarity_overFirst(a, b) ==
  LET aSet == getSymbolsForSnippet_fast(a)
      bSet == getSymbolsForSnippet_fast(b)
      intersection == Cardinality({symbol \in aSet : symbol \in bSet})
  IN IF Cardinality(aSet) = 0 THEN 0
     ELSE (10 * intersection) \div Cardinality(aSet)

\* variant of jaccardSimilarity that counts shared symbols twice in the union
jaccardSimilarity_unionOfSizes(a, b) ==
  LET aSet == getSymbolsForSnippet_fast(a)
      bSet == getSymbolsForSnippet_fast(b)
      union == Cardinality(aSet) + Cardinality(bSet)
      intersection == Cardinality({symbol \in aSet : symbol \in bSet})
  IN IF union = 0 THEN 0 ELSE (10 * intersection) \div union

jaccardSimilarity(a, b) ==
  LET aSet == getSymbolsForSnippet_fast(a)
      bSet == getSymbolsForSnippet_fast(b)
      union == Cardinality(aSet \cup bSet)
      intersection == Cardinality({symbol \in aSet : symbol \in bSet})
  IN IF union = 0 THEN 0 ELSE (10 * intersection) \div union

(***************************************************************************)
(* Deduplication: mergeOverlappingRangeContents, mergeSnippetsByRange,     *)
(* deduplicateSnippets, and rankSnippets                                   *)
(***************************************************************************)
\* Array.prototype.slice(start) for a sequence (start may be negative)
sliceFrom(lines, start) ==
  LET from == IF start < 0 THEN Max2(Len(lines) + start, 0)
              ELSE Min2(start, Len(lines))
  IN SubSeq(lines, from + 1, Len(lines))

\* Array.prototype.join("\n") read back as lines: no element joins to ""
joinLines(lines) == IF lines = <<>> THEN EmptyString ELSE lines

\* called with first.range.end already overwritten by second.range.end
mergeOverlappingRangeContents(first, second) ==
  LET firstLines == first.contents
      numOverlapping == first.range.end.line - second.range.start.line
  IN joinLines(sliceFrom(firstLines, 0 - numOverlapping)) \o second.contents

\* the body of the merge branch: score, then range.end, then contents
mergedWith(last, next) ==
  LET scored == [last EXCEPT !.score = Max2(last.score, next.score)]
      ranged == [scored EXCEPT !.range.end = next.range.end]
  IN [ranged EXCEPT !.contents = mergeOverlappingRangeContents(ranged, next)]

\* stable insertion of x after every element whose start line is <= x's
RECURSIVE insertByStartLine(_, _)
insertByStartLine(sorted, x) ==
  IF sorted = <<>> THEN <<x>>
  ELSE IF sorted[1].range.start.line - x.range.start.line > 0
         THEN <<x>> \o sorted
         ELSE <<sorted[1]>> \o insertByStartLine(Tail(sorted), x)

\* snippets.sort((a, b) => a.range.start.line - b.range.start.line), stable
RECURSIVE sortByStartLine(_)
sortByStartLine(snippets) ==
  IF snippets = <<>> THEN <<>>
  ELSE insertByStartLine(
         sortByStartLine(SubSeq(snippets, 1, Len(snippets) - 1)),
         snippets[Len(snippets)])

RECURSIVE mergeLoop(_, _)
mergeLoop(sorted, merged) ==
  IF sorted = <<>> THEN merged
  ELSE LET next == Head(sorted)
       IN IF Len(merged) > 0
               /\ merged[Len(merged)].range.end.line >= next.range.start.line
            THEN mergeLoop(Tail(sorted),
                   [merged EXCEPT ![Len(merged)] =
                      mergedWith(merged[Len(merged)], next)])
            ELSE mergeLoop(Tail(sorted), Append(merged, next))

mergeSnippetsByRange(snippets) ==
  IF Len(snippets) <= 1 THEN snippets
  ELSE mergeLoop(sortByStartLine(snippets), <<>>)

\* the keys of fileGroups in insertion order
RECURSIVE fileGroupKeys(_, _)
fileGroupKeys(snippets, keys) ==
  IF snippets = <<>> THEN keys
  ELSE IF \E k \in 1..Len(keys) : keys[k] = Head(snippets).filepath
         THEN fileGroupKeys(Tail(snippets), keys)
         ELSE fileGroupKeys(Tail(snippets),
                            Append(keys, Head(snippets).filepath))

fileGroup(snippets, file) ==
  LET InFile(snippet) == snippet.filepath = file
  IN SelectSeq(snippets, InFile)

RECURSIVE mergeGroups(_, _, _)
mergeGroups(snippets, keys, allRanges) ==
  IF keys = <<>> THEN allRanges
  ELSE mergeGroups(snippets, Tail(keys),
         allRanges \o mergeSnippetsByRange(fileGroup(snippets, Head(keys))))

deduplicateSnippets(snippets) ==
  mergeGroups(snippets, fileGroupKeys(snippets, <<>>), <<>>)

\* stable insertion of x after every element whose score is >= x's
RECURSIVE insertByScore(_, _)
insertByScore(sorted, x) ==
  IF sorted = <<>> THEN <<x>>
  ELSE IF x.score - sorted[1].score > 0
         THEN <<x>> \o sorted
         ELSE <<sorted[1]>> \o insertByScore(Tail(sorted), x)

\* uniqueSnippets.sort((a, b) => b.score - a.score), stable
RECURSIVE sortByScore(_)
sortByScore(snippets) ==
  IF snippets = <<>> THEN <<>>
  ELSE insertByScore(
         sortByScore(SubSeq(snippets, 1, Len(snippets) - 1)),
         snippets[Len(snippets)])

withScore(snippet, windowAroundCursor) ==
  IF snippet.score = NoScore
    THEN [snippet EXCEPT
            !.score = jaccardSimilarity(snippet.contents, windowAroundCursor)]
    ELSE snippet

rankSnippets(ranges, windowAroundCursor) ==
  LET snippets == [i \in 1..Len(ranges) |->
                     withScore(ranges[i], windowAroundCursor)]
  IN sortByScore(deduplicateSnippets(snippets))

(***************************************************************************)
(* Specification of deduplication: a list of scored snippets is drawn in   *)
(* Init and Deduplicate applies deduplicateSnippets to it.  Every input    *)
(* snippet holds one line of contents per line of its range.               *)
(***************************************************************************)
MergeCandidates ==
  {MkSnippet(f, s, e, [i \in 1..(e - s + 1) |-> "a"], sc) :
     f \in {"A", "B"},
     s \in 0..MaxMergeLine, e \in 0..MaxMergeLine, sc \in {3, 7}}

InitMerge ==
  /\ mergePc = "ready"
  /\ mergeIn \in {l \in SeqsUpTo(MergeCandidates, MaxMergeSnips) :
                    \A i \in 1..Len(l) :
                      l[i].range.start.line <= l[i].range.end.line}
  /\ mergeOut = <<>>

Deduplicate ==
  /\ mergePc = "ready"
  /\ mergeOut' = deduplicateSnippets(mergeIn)
  /\ mergePc' = "done"
  /\ UNCHANGED mergeIn
  /\ UNCHANGED notMerge

NextMerge == Deduplicate

(***************************************************************************)
(* Claims about merging                                                    *)
(***************************************************************************)
RangesOverlap(r1, r2) ==
  Max2(r1.start.line, r2.start.line) <= Min2(r1.end.line, r2.end.line)

\* C5: merging two snippets of the same file whose line ranges overlap
\* (containment included) yields exactly one snippet, from the smaller start
\* line to the larger end line, with the larger of the two scores.
C5_MergeSpansBoth ==
  ( /\ mergePc = "done"
    /\ Len(mergeIn) = 2
    /\ mergeIn[1].filepath = mergeIn[2].filepath
    /\ RangesOverlap(mergeIn[1].range, mergeIn[2].range) )
  => /\ Len(mergeOut) = 1
     /\ mergeOut[1].range.start.line
          = Min2(mergeIn[1].range.start.line, mergeIn[2].range.start.line)
     /\ mergeOut[1].range.end.line
          = Max2(mergeIn[1].range.end.line, mergeIn[2].range.end.line)
     /\ mergeOut[1].score = Max2(mergeIn[1].score, mergeIn[2].score)

LinesOfRange(range) == range.end.line - range.start.line + 1

\* C18: when every input snippet holds one line of contents per line of its
\* range, every snippet deduplicateSnippets returns does so too.
C18_LineCountCorrespondence ==
  mergePc = "done"
  => \A k \in 1..Len(mergeOut) :
       Len(mergeOut[k].contents) = LinesOfRange(mergeOut[k].range)

(***************************************************************************)
(* Syntax chunker.  A node is [size, kids] with size = endIndex -          *)
(* startIndex; the children of a node are read only when the node is       *)
(* larger than MAX_BLOCK_SIZE, so smaller nodes carry no kids.  Children   *)
(* lie one character apart inside their parent.  A fragment records the    *)
(* file, the span of its source node and the length of its contents;       *)
(* collapsed says the contents came from collapseLargeBlock.               *)
(***************************************************************************)
MAX_BLOCK_SIZE == 2000
MIN_BLOCK_SIZE == 300
PlaceholderLength == 7     \* "{ ... }"

LeafSizes == {MIN_BLOCK_SIZE - 1, MIN_BLOCK_SIZE, MAX_BLOCK_SIZE}

Leaf(size) == [size |-> size, kids |-> <<>>]

RECURSIVE SumSizes(_)
SumSizes(kids) ==
  IF kids = <<>> THEN 0 ELSE 1 + Head(kids).size + SumSizes(Tail(kids))

LargeNode(kids) ==
  [size |-> Max2(MAX_BLOCK_SIZE + 1, 1 + SumSizes(kids)), kids |-> kids]

\* the nodes with at most n nodes below them, and the child lists with at
\* most n nodes in all
RECURSIVE NodesUpTo(_)
RECURSIVE KidsUpTo(_)
NodesUpTo(n) ==
  {Leaf(size) : size \in LeafSizes}
  \cup {LargeNode(kids) : kids \in KidsUpTo(n)}

KidsUpTo(n) ==
  {<<>>} \cup
  UNION {{<<t>> \o rest : t \in NodesUpTo(k - 1), rest \in KidsUpTo(n - k)} :
           k \in 1..n}

RootNodes(n) == NodesUpTo(n) \cup {Leaf(MIN_BLOCK_SIZE + 1)}

FileOf(i) == IF i = 1 THEN "A" ELSE "B"

\* child.startIndex - node.startIndex for the idx-th child
childStart(node, idx) ==
  1 + SumSizes(SubSeq(node.kids, 1, idx - 1))

\* length of classCode.slice(0, a) + replacement + classCode.slice(b)
spliceLength(classLen, a, b, replacementLen) ==
  Min2(a, classLen) + replacementLen + Max2(classLen - b, 0)

Fragment(filepath, base, node, textLength, collapsed) ==
  [filepath |-> filepath,
   startIndex |-> base,
   endIndex |-> base + node.size,
   textLength |-> textLength,
   collapsed |-> collapsed]

\* variant of childBranch without the test for an over-large child
childBranch_noRecursion(childLength) ==
  IF childLength < MIN_BLOCK_SIZE THEN "skip" ELSE "collect"

\* the branch collapseLargeBlock takes for a child of this length
childBranch(childLength) ==
  IF childLength < MIN_BLOCK_SIZE THEN "skip"
  ELSE IF childLength > MAX_BLOCK_SIZE THEN "collapse"
  ELSE "collect"

\* the branch processNode takes for a root of this length
rootBranch(nodeLength) ==
  IF nodeLength > MAX_BLOCK_SIZE THEN "collapse"
  ELSE IF nodeLength > MIN_BLOCK_SIZE THEN "whole"
  ELSE "nothing"

\* a call of collapseLargeBlock(node, code, filepath) at its first statement
CollapseCall(node, base) ==
  [node |-> node, base |-> base, idx |-> 1, classLen |-> node.size]

\* Runs the innermost call of collapseLargeBlock until some call returns:
\* small children are skipped, mid-sized ones are pushed on collectedChunks
\* and replaced by the placeholder, a large one starts a nested call, which
\* runs at once.  The caller of the call that returned is then at its await.
RECURSIVE runCollapse(_, _, _)
runCollapse(stack, pushed, filepath) ==
  LET top == stack[Len(stack)]
      node == top.node
  IN IF top.idx > Len(node.kids)
       THEN [stack |-> stack, pushed |-> pushed]
       ELSE
         LET child == node.kids[top.idx]
             a == childStart(node, top.idx)
             b == a + child.size
             branch == childBranch(child.size)
         IN IF branch = "skip"
              THEN runCollapse(
                     [stack EXCEPT ![Len(stack)].idx = top.idx + 1],
                     pushed, filepath)
            ELSE IF branch = "collapse"
              THEN runCollapse(
                     Append(stack, CollapseCall(child, top.base + a)),
                     pushed, filepath)
            ELSE runCollapse(
                   [stack EXCEPT
                      ![Len(stack)].idx = top.idx + 1,
                      ![Len(stack)].classLen =
                         spliceLength(top.classLen, a, b, PlaceholderLength)],
                   Append(pushed,
                          Fragment(filepath, top.base + a, child, child.size,
                                   FALSE)),
                   filepath)

\* the caller's continuation after `await collapseLargeBlock(child, ...)`:
\* the returned text replaces the child's span
returnToCaller(stack) ==
  LET returned == stack[Len(stack)]
      caller == stack[Len(stack) - 1]
      a == childStart(caller.node, caller.idx)
      b == a + returned.node.size
  IN [SubSeq(stack, 1, Len(stack) - 1) EXCEPT
        ![Len(stack) - 1].idx = caller.idx + 1,
        ![Len(stack) - 1].classLen =
           spliceLength(caller.classLen, a, b, returned.classLen)]

\* what one invocation yields when nothing else runs: the skeleton, then the
\* chunks its own collapse collected (or the whole root, or nothing)
RECURSIVE collapseAlone(_, _, _)
collapseAlone(stack, pushed, filepath) ==
  LET r == runCollapse(stack, pushed, filepath)
  IN IF Len(r.stack) = 1
       THEN <<Fragment(filepath, 0, r.stack[1].node, r.stack[1].classLen,
                       TRUE)>> \o r.pushed
       ELSE collapseAlone(returnToCaller(r.stack), r.pushed, filepath)

emitsAlone(root, hasParser, filepath) ==
  IF ~hasParser THEN <<>>
  ELSE IF rootBranch(root.size) = "collapse"
    THEN collapseAlone(<<CollapseCall(root, 0)>>, <<>>, filepath)
  ELSE IF rootBranch(root.size) = "whole"
    THEN <<Fragment(filepath, 0, root, root.size, FALSE)>>
  ELSE <<>>

InitChunk ==
  /\ chunkPc = [i \in Invocations |-> "start"]
  /\ chunkTree \in [Invocations -> RootNodes(MaxTreeNodes)]
  /\ chunkParser \in [Invocations -> BOOLEAN]
  /\ chunkStack = [i \in Invocations |-> <<>>]
  /\ chunkIter = [i \in Invocations |-> [array |-> 1, index |-> 0]]
  /\ emitted = [i \in Invocations |-> <<>>]
  /\ arrays = << <<>> >>
  /\ collectedChunks = 1

\* fastChunk resumes after `await getParserForFile`: without a parser it
\* returns; otherwise it parses and drives processNode to its first
\* suspension point.
ParserResolved(i) ==
  /\ chunkPc[i] = "start"
  /\ LET root == chunkTree[i]
         branch == rootBranch(root.size)
     IN IF ~chunkParser[i] \/ branch = "nothing"
          THEN /\ chunkPc' = [chunkPc EXCEPT ![i] = "done"]
               /\ UNCHANGED <<chunkStack, emitted, arrays, collectedChunks>>
        ELSE IF branch = "whole"
          THEN /\ chunkPc' = [chunkPc EXCEPT ![i] = "whole"]
               /\ emitted' = [emitted EXCEPT ![i] =
                    Append(@, Fragment(FileOf(i), 0, root, root.size, FALSE))]
               /\ UNCHANGED <<chunkStack, arrays, collectedChunks>>
        ELSE LET r == runCollapse(<<CollapseCall(root, 0)>>, <<>>, FileOf(i))
             IN /\ chunkPc' = [chunkPc EXCEPT ![i] = "collapsing"]
                /\ chunkStack' = [chunkStack EXCEPT ![i] = r.stack]
                /\ arrays' = Append(arrays, r.pushed)
                /\ collectedChunks' = Len(arrays) + 1
                /\ UNCHANGED emitted
  /\ UNCHANGED <<chunkTree, chunkParser, chunkIter>>
  /\ UNCHANGED notChunk

\* an `await collapseLargeBlock(...)` resumes: in a nested call the caller
\* goes on with its children; in processNode the skeleton is yielded.
CollapseResumed(i) ==
  /\ chunkPc[i] = "collapsing"
  /\ IF Len(chunkStack[i]) = 1
       THEN /\ emitted' = [emitted EXCEPT ![i] =
                 Append(@, Fragment(FileOf(i), 0, chunkStack[i][1].node,
                                    chunkStack[i][1].classLen, TRUE))]
            /\ chunkPc' = [chunkPc EXCEPT ![i] = "skeleton"]
            /\ chunkStack' = [chunkStack EXCEPT ![i] = <<>>]
            /\ UNCHANGED arrays
       ELSE LET r == runCollapse(returnToCaller(chunkStack[i]), <<>>,
                                 FileOf(i))
            IN /\ chunkStack' = [chunkStack EXCEPT ![i] = r.stack]
               /\ arrays' = [arrays EXCEPT ![collectedChunks] = @ \o r.pushed]
               /\ UNCHANGED <<chunkPc, emitted>>
  /\ UNCHANGED <<chunkTree, chunkParser, chunkIter, collectedChunks>>
  /\ UNCHANGED notChunk

\* the for-of loop of processNode asks its iterator for the next chunk
nextChunk(i, iter) ==
  IF iter.index < Len(arrays[iter.array])
    THEN /\ emitted' = [emitted EXCEPT ![i] =
              Append(@, arrays[iter.array][iter.index + 1])]
         /\ chunkIter' = [chunkIter EXCEPT ![i] =
              [array |-> iter.array, index |-> iter.index + 1]]
         /\ chunkPc' = [chunkPc EXCEPT ![i] = "iterating"]
    ELSE /\ chunkPc' = [chunkPc EXCEPT ![i] = "done"]
         /\ chunkIter' = [chunkIter EXCEPT ![i] = iter]
         /\ UNCHANGED emitted

\* the consumer asks for the fragment after the skeleton: the for-of loop
\* starts on the array collectedChunks is bound to now
SkeletonConsumed(i) ==
  /\ chunkPc[i] = "skeleton"
  /\ nextChunk(i, [array |-> collectedChunks, index |-> 0])
  /\ UNCHANGED <<chunkTree, chunkParser, chunkStack, arrays, collectedChunks>>
  /\ UNCHANGED notChunk

\* the consumer asks for the fragment after a collected chunk
ChunkConsumed(i) ==
  /\ chunkPc[i] = "iterating"
  /\ nextChunk(i, chunkIter[i])
  /\ UNCHANGED <<chunkTree, chunkParser, chunkStack, arrays, collectedChunks>>
  /\ UNCHANGED notChunk

\* the consumer asks for the fragment after the whole root: there is none
WholeConsumed(i) ==
  /\ chunkPc[i] = "whole"
  /\ chunkPc' = [chunkPc EXCEPT ![i] = "done"]
  /\ UNCHANGED <<chunkTree, chunkParser, chunkStack, chunkIter, emitted,
                 arrays, collectedChunks>>
  /\ UNCHANGED notChunk

NextChunk ==
  \E i \in Invocations :
    \/ ParserResolved(i)
    \/ CollapseResumed(i)
    \/ SkeletonConsumed(i)
    \/ ChunkConsumed(i)
    \/ WholeConsumed(i)

(***************************************************************************)
(* Claims about the chunker                                                *)
(***************************************************************************)
\* C4: interleaved chunker invocations on different files do not share
\* snippet buffers: every fragment an invocation yields has its own
\* filepath, and an invocation that has finished has yielded exactly the
\* fragments it yields when run alone.
C4_InvocationsIsolated ==
  \A i \in Invocations :
    /\ \A k \in 1..Len(emitted[i]) : emitted[i][k].filepath = FileOf(i)
    /\ chunkPc[i] = "done"
         => emitted[i] = emitsAlone(chunkTree[i], chunkParser[i], FileOf(i))


\* C9: the chunker never yields a fragment whose text is longer than
\* MAX_BLOCK_SIZE, except the one collapsed skeleton of an over-large root
\* (yielded first), and never yields a fragment whose source node is
\* shorter than MIN_BLOCK_SIZE.
C9_FragmentSizes ==
  \A i \in Invocations :
    \A k \in 1..Len(emitted[i]) :
      LET f == emitted[i][k]
      IN /\ f.endIndex - f.startIndex >= MIN_BLOCK_SIZE
         /\ f.textLength > MAX_BLOCK_SIZE
              => /\ k = 1
                 /\ f.collapsed
                 /\ f.startIndex = 0
                 /\ f.endIndex = chunkTree[i].size
         /\ f.collapsed => k = 1

\* C9 witness: an over-large root whose first child is over-large too and
\* holds a child of exactly MAX_BLOCK_SIZE; the invocation has finished and
\* yielded the skeleton (shorter than the root) and that grandchild.
C9_Witness ==
  /\ chunkPc[1] = "done"
  /\ Len(chunkTree[1].kids) = 1
  /\ chunkTree[1].kids[1].size > MAX_BLOCK_SIZE
  /\ Len(chunkTree[1].kids[1].kids) = 1
  /\ chunkTree[1].kids[1].kids[1].size = MAX_BLOCK_SIZE
  /\ Len(emitted[1]) = 2
  /\ emitted[1][1].collapsed
  /\ emitted[1][1].textLength < chunkTree[1].size
  /\ emitted[1][2].textLength = MAX_BLOCK_SIZE

\* C17: for a parsed root whose size is from MIN_BLOCK_SIZE to
\* MAX_BLOCK_SIZE, both included, the chunker emits exactly one fragment,
\* the whole root; for a root smaller than MIN_BLOCK_SIZE it emits nothing.
C17_RootBetweenMinAndMax ==
  \A i \in Invocations :
    (chunkPc[i] = "done" /\ chunkParser[i])
    => LET root == chunkTree[i]
       IN /\ (root.size >= MIN_BLOCK_SIZE /\ root.size <= MAX_BLOCK_SIZE)
               => emitted[i]
                    = <<Fragment(FileOf(i), 0, root, root.size, FALSE)>>
          /\ root.size < MIN_BLOCK_SIZE => emitted[i] = <<>>

(***************************************************************************)
(* Directory harvesting.  Directories are 1..n, directory 1 is the top and *)
(* every other directory lies in a directory of smaller number.  A         *)
(* directory holds its subdirectories and at most one plain file; readdir  *)
(* fails on a directory that is not readable.  The file of a directory is  *)
(* "ok" (smaller than 10 * maxSize), "huge" (10 * maxSize bytes) or        *)
(* "fails" (stat or read throws).                                          *)
(***************************************************************************)
MAX_FILE_SIZE == 100000

FileSystems(n) ==
  {[parent |-> p, readable |-> r, file |-> f] :
     p \in {q \in [1..n -> 0..(n - 1)] :
              \A d \in 1..n : q[d] < d /\ (q[d] = 0 <=> d = 1)},
     r \in [1..n -> BOOLEAN],
     f \in [1..n -> {"none", "ok", "huge", "fails"}]}

\* path.join(directory, entry.name) for the plain file of directory d
FilePaths == <<"/w1/f.ts", "/w2/f.ts", "/w3/f.ts", "/w4/f.ts", "/w5/f.ts">>

FilePath(d) == FilePaths[d]

DirOfPath(p) == CHOOSE d \in 1..Len(FilePaths) : FilePaths[d] = p

\* the subdirectories of d, in the order readdir lists them
RECURSIVE subdirsFrom(_, _, _)
subdirsFrom(fsys, d, c) ==
  IF c > Len(fsys.parent) THEN <<>>
  ELSE IF fsys.parent[c] = d
         THEN <<c>> \o subdirsFrom(fsys, d, c + 1)
         ELSE subdirsFrom(fsys, d, c + 1)

\* every directory from `directory` down can be read
RECURSIVE allReadable(_, _)
allReadable(fsys, directory) ==
  /\ fsys.readable[directory]
  /\ \A c \in 1..Len(fsys.parent) :
       fsys.parent[c] = directory => allReadable(fsys, c)

\* every file from `directory` down, subdirectories first
RECURSIVE allFiles(_, _)
allFiles(fsys, directory) ==
  LET below[c \in 0..Len(fsys.parent)] ==
        IF c = 0 THEN <<>>
        ELSE below[c - 1] \o (IF fsys.parent[c] = directory
                                THEN allFiles(fsys, c) ELSE <<>>)
  IN below[Len(fsys.parent)]
       \o (IF fsys.file[directory] = "none" THEN <<>>
           ELSE <<FilePath(directory)>>)

\* variant of getFilesFromDirectory in which a failure below is not caught
\* where it happens: it reaches the outermost call, which returns nothing
getFilesFromDirectory_failurePropagates(fsys, directory) ==
  IF allReadable(fsys, directory) THEN allFiles(fsys, directory) ELSE <<>>

\* getFilesFromDirectory(directory): the paths returned
RECURSIVE getFilesFromDirectory(_, _)
RECURSIVE filesOfSubdirs(_, _)
getFilesFromDirectory(fsys, directory) ==
  IF ~fsys.readable[directory] THEN <<>>
  ELSE filesOfSubdirs(fsys, subdirsFrom(fsys, directory, 1))
         \o (IF fsys.file[directory] = "none" THEN <<>>
             ELSE <<FilePath(directory)>>)

filesOfSubdirs(fsys, dirs) ==
  IF dirs = <<>> THEN <<>>
  ELSE getFilesFromDirectory(fsys, Head(dirs))
         \o filesOfSubdirs(fsys, Tail(dirs))

\* getFilesFromDirectory(directory): the directories fs.readdir is called on
RECURSIVE readdirCalls(_, _)
RECURSIVE readdirCallsOfSubdirs(_, _)
readdirCalls(fsys, directory) ==
  <<directory>> \o
    (IF ~fsys.readable[directory] THEN <<>>
     ELSE readdirCallsOfSubdirs(fsys, subdirsFrom(fsys, directory, 1)))

readdirCallsOfSubdirs(fsys, dirs) ==
  IF dirs = <<>> THEN <<>>
  ELSE readdirCalls(fsys, Head(dirs))
         \o readdirCallsOfSubdirs(fsys, Tail(dirs))

\* stats.size of the file at a path
fileSizeInBytes(fsys, p) ==
  IF fsys.file[DirOfPath(p)] = "huge" THEN 10 * MAX_FILE_SIZE
  ELSE MAX_FILE_SIZE - 1

\* buffer.toString('utf-8') after the read of the first maxSize bytes
decodedBuffer(fsys, p) == <<"a">>

readFileWithSizeCheck(fsys, p, maxSize) ==
  IF fsys.file[DirOfPath(p)] = "fails" THEN EmptyString
  ELSE IF fileSizeInBytes(fsys, p) < 10 * maxSize THEN decodedBuffer(fsys, p)
  ELSE EmptyString

\* the snippet pushed for a file, if its content is not ""
harvestedSnippets(fsys, p) ==
  LET fileContent == readFileWithSizeCheck(fsys, p, MAX_FILE_SIZE)
  IN IF fileContent # EmptyString
       THEN <<MkSnippet(p, 0, 0, fileContent, NoScore)>>
       ELSE <<>>

RECURSIVE harvestFiles(_, _)
harvestFiles(fsys, paths) ==
  IF paths = <<>> THEN <<>>
  ELSE harvestedSnippets(fsys, Head(paths)) \o harvestFiles(fsys, Tail(paths))

\* the whole loop over workspaceDirs: the snippets it pushes
RECURSIVE harvestWorkspace(_, _)
harvestWorkspace(fsys, dirs) ==
  IF dirs = <<>> THEN <<>>
  ELSE harvestFiles(fsys, getFilesFromDirectory(fsys, Head(dirs)))
         \o harvestWorkspace(fsys, Tail(dirs))

WorkspaceDirLists(n) == {l \in SeqsUpTo(1..n, 2) : l # <<>>}

InitWalk ==
  /\ fs \in FileSystems(MaxDirs)
  /\ workspaceDirs \in WorkspaceDirLists(MaxDirs)
  /\ walkPc = "walk"
  /\ walkRoot = 1
  /\ walkQueue = <<>>
  /\ walkVisited = <<>>
  /\ walkFiles = <<>>
  /\ walkSnippets = <<>>

\* `await getFilesFromDirectory(directory)` for the next workspace root
WalkDirectory ==
  /\ walkPc = "walk"
  /\ LET directory == workspaceDirs[walkRoot]
         found == getFilesFromDirectory(fs, directory)
     IN /\ walkQueue' = found
        /\ walkFiles' = walkFiles \o found
        /\ walkVisited' = walkVisited \o readdirCalls(fs, directory)
  /\ walkPc' = "read"
  /\ UNCHANGED <<fs, workspaceDirs, walkRoot, walkSnippets>>
  /\ UNCHANGED notWalk

\* one iteration of the inner loop: read the file, push it unless empty
ReadFile ==
  /\ walkPc = "read"
  /\ walkQueue # <<>>
  /\ walkSnippets' = walkSnippets \o harvestedSnippets(fs, Head(walkQueue))
  /\ walkQueue' = Tail(walkQueue)
  /\ UNCHANGED <<fs, workspaceDirs, walkPc, walkRoot, walkVisited, walkFiles>>
  /\ UNCHANGED notWalk

\* the inner loop ends: on to the next workspace root, or out of the loop
NextDirectory ==
  /\ walkPc = "read"
  /\ walkQueue = <<>>
  /\ walkRoot' = walkRoot + 1
  /\ walkPc' = IF walkRoot < Len(workspaceDirs) THEN "walk" ELSE "done"
  /\ UNCHANGED <<fs, workspaceDirs, walkQueue, walkVisited, walkFiles,
                 walkSnippets>>
  /\ UNCHANGED notWalk

NextWalk == WalkDirectory \/ ReadFile \/ NextDirectory

(***************************************************************************)
(* Claims about directory harvesting                                       *)
(***************************************************************************)
TimesVisited(d) ==
  Cardinality({k \in 1..Len(walkVisited) : walkVisited[k] = d})

\* C10: during one invocation directory harvesting reads each directory at
\* most once, also when one workspace root contains another (the code has
\* no configured maximum number of files to compare the result with).
C10_EachDirectoryOnce ==
  \A d \in 1..MaxDirs : TimesVisited(d) <= 1

CountIn(list, x) == Cardinality({k \in 1..Len(list) : list[k] = x})

\* every directory from root down to d can be read (d lies below root)
RECURSIVE ReadableDownTo(_, _)
ReadableDownTo(root, d) ==
  IF d = 0 THEN FALSE
  ELSE IF d = root THEN fs.readable[d]
  ELSE fs.readable[d] /\ ReadableDownTo(root, fs.parent[d])

\* the number of workspace roots from which directory d is reached
TimesReached(d) ==
  Cardinality({k \in 1..Len(workspaceDirs) :
                 ReadableDownTo(workspaceDirs[k], d)})

\* C19: a directory that cannot be read costs only its own subtree, and a
\* file that cannot be read only itself: once the walk is over, the file of
\* directory d has been returned once for every workspace root from which d
\* is reached through readable directories, and it has been pushed as a
\* snippet as often when it is readable and small enough, never otherwise.
C19_FailureSkipsOnlySubtree ==
  walkPc = "done"
  => \A d \in 1..MaxDirs :
       LET p == FilePath(d)
           pushed == {k \in 1..Len(walkSnippets) : walkSnippets[k].filepath = p}
       IN /\ CountIn(walkFiles, p)
               = (IF fs.file[d] = "none" THEN 0 ELSE TimesReached(d))
          /\ Cardinality(pushed)
               = (IF fs.file[d] = "ok" THEN TimesReached(d) ELSE 0)

\* C19 witness: below the one root, directory 2 cannot be read and its
\* sibling 3 holds a file that cannot be read; the walk is over, it returned
\* the files of 3 and of the root, and pushed the root's file after the
\* failed read.
C19_Witness ==
  /\ walkPc = "done"
  /\ workspaceDirs = <<1>>
  /\ fs.parent[2] = 1 /\ fs.parent[3] = 1
  /\ fs.readable[1] /\ ~fs.readable[2] /\ fs.readable[3]
  /\ fs.file[1] = "ok" /\ fs.file[2] = "ok" /\ fs.file[3] = "fails"
  /\ CountIn(walkFiles, FilePath(3)) = 1
  /\ CountIn(walkFiles, FilePath(2)) = 0
  /\ Len(walkSnippets) = 1
  /\ walkSnippets[1].filepath = FilePath(1)

(***************************************************************************)
(* Range algebra by lines.  The null result of rangeIntersectionByLines is *)
(* the empty list of ranges.                                               *)
(***************************************************************************)
rangeIntersectionByLines(a, b) ==
  LET startLine == Max2(a.start.line, b.start.line)
      endLine == Min2(a.end.line, b.end.line)
  IN IF startLine >= endLine THEN <<>>
     ELSE << [start |-> Pos(startLine, 0), end |-> Pos(endLine, 0)] >>

\* variant of rangeDifferenceByLines whose first test is strict
rangeDifferenceByLines_strictInside(orig, remove) ==
  IF orig.start.line > remove.start.line
     /\ orig.end.line < remove.end.line
    THEN <<>>
  ELSE IF orig.start.line <= remove.start.line
          /\ orig.end.line >= remove.end.line
    THEN << [start |-> orig.start, end |-> remove.start],
            [start |-> remove.end, end |-> orig.end] >>
  ELSE IF orig.start.line >= remove.start.line
          /\ orig.end.line >= remove.end.line
    THEN << [start |-> remove.end, end |-> orig.end] >>
  ELSE << [start |-> orig.start, end |-> remove.start] >>

rangeDifferenceByLines(orig, remove) ==
  IF orig.start.line >= remove.start.line
     /\ orig.end.line <= remove.end.line
    THEN <<>>
  ELSE IF orig.start.line <= remove.start.line
          /\ orig.end.line >= remove.end.line
    THEN << [start |-> orig.start, end |-> remove.start],
            [start |-> remove.end, end |-> orig.end] >>
  ELSE IF orig.start.line >= remove.start.line
          /\ orig.end.line >= remove.end.line
    THEN << [start |-> remove.end, end |-> orig.end] >>
  ELSE IF orig.start.line <= remove.start.line
          /\ orig.end.line <= remove.end.line
    THEN << [start |-> orig.start, end |-> remove.start] >>
  ELSE <<orig>>

\* what the loop body of removeRangeFromSnippets pushes for one snippet
remainderOf(snippet, filepath, range) ==
  IF snippet.filepath # filepath THEN <<snippet>>
  ELSE LET intersection == rangeIntersectionByLines(range, snippet.range)
       IN IF intersection = <<>> THEN <<snippet>>
          ELSE LET pieces ==
                     rangeDifferenceByLines(snippet.range, intersection[1])
               IN [k \in 1..Len(pieces) |->
                     [snippet EXCEPT !.range = pieces[k]]]

RECURSIVE removeRangeFromSnippets(_, _, _)
removeRangeFromSnippets(snippets, filepath, range) ==
  IF snippets = <<>> THEN <<>>
  ELSE remainderOf(Head(snippets), filepath, range)
         \o removeRangeFromSnippets(Tail(snippets), filepath, range)

(***************************************************************************)
(* The prompt constructors.  Three are modelled: "current" harvests the    *)
(* workspace directories into snippets, "walkOnly" walks them and returns  *)
(* no snippet, "origin" gathers snippets from the context sources.  The    *)
(* pruned prefix and suffix, the window around the cursor and the tree     *)
(* path are inputs; scores and the threshold are in tenths.                *)
(***************************************************************************)
\* String.prototype.trim on a text: leading and trailing blank lines go
RECURSIVE trimStart(_)
trimStart(text) ==
  IF text = <<>> THEN <<>>
  ELSE IF Head(text) = "" THEN trimStart(Tail(text)) ELSE text

RECURSIVE trimEnd(_)
trimEnd(text) ==
  IF text = <<>> THEN <<>>
  ELSE IF text[Len(text)] = "" THEN trimEnd(SubSeq(text, 1, Len(text) - 1))
  ELSE text

trim(text) == joinLines(trimEnd(trimStart(text)))

\* prefix + suffix: the last line of one continues into the first of the
\* other (one of the two is blank in every input drawn here)
concat(first, second) ==
  LET joint == IF first[Len(first)] = "" THEN second[1] ELSE first[Len(first)]
  IN SubSeq(first, 1, Len(first) - 1) \o <<joint>> \o Tail(second)

\* String.prototype.includes for a needle that is "" or starts and ends
\* with a non-blank line
includes(haystack, needle) ==
  \/ needle = EmptyString
  \/ \E k \in 1..Len(haystack) :
       /\ k + Len(needle) - 1 <= Len(haystack)
       /\ SubSeq(haystack, k, k + Len(needle) - 1) = needle

lineLength(line) == IF line = "" THEN 0 ELSE 1

\* filepath.split("://").slice(-1)[0]
withoutScheme(filepath) ==
  IF filepath = "file:///w1/f.ts" THEN "/w1/f.ts" ELSE filepath

\* the filter for empty snippets and ones already in the prefix/suffix
notEmptyNorInPrompt(s, prefix, suffix) ==
  /\ trim(s.contents) # EmptyString
  /\ ~includes(concat(prefix, suffix), trim(s.contents))

prefixSuffixRangeWithBuffer(cursorLine, prefix, suffix) ==
  LET prefixLines == Len(prefix)
      suffixLines == Len(suffix)
      buffer == 8
  IN [start |-> Pos(cursorLine - prefixLines - buffer, 0),
      end |-> Pos(cursorLine + suffixLines + buffer, 0)]

maxSnippetTokens(options) ==
  (options.maxPromptTokens * options.maxSnippetPercentage) \div 10

\* the inputs the model draws
OrchRanges == {<<0, 5>>, <<5, 15>>, <<15, 25>>, <<5, 40>>, <<25, 40>>,
               <<40, 45>>}

ExtraCandidates ==
  {MkSnippet(f, r[1], r[2], c, sc) :
     f \in {"/w1/f.ts", "/w2/f.ts"}, r \in OrchRanges,
     c \in {<<"a">>, <<"a", "a">>}, sc \in {NoScore, 2, 9}}
  \cup {MkSnippet("/w2/f.ts", 0, 5, <<"", "">>, 9)}

RecentlyEditedRanges ==
  {[filepath |-> f, range |-> [start |-> Pos(5, 0), end |-> Pos(15, 0)],
    lines |-> <<"a", "a">>] : f \in {"/w1/f.ts", "/w2/f.ts"}}

ImportDefinitions ==
  {MkSnippet("/w2/f.ts", 40, 45, c, NoScore) : c \in {<<"a">>, <<"a", "a">>}}

RootPathContext ==
  {MkSnippet("/w3/f.ts", 0, 5, <<"a", "a">>, sc) : sc \in {NoScore, 2}}

OptionSets ==
  [useOtherFiles : BOOLEAN, useRecentlyEdited : BOOLEAN,
   useImports : BOOLEAN, useRootPathContext : BOOLEAN,
   maxPromptTokens : {2, 8}, maxSnippetPercentage : {5},
   recentLinePrefixMatchMinLength : {0},
   recentlyEditedSimilarityThreshold : {0, 5}]

InputSets ==
  [filepath : {"file:///w1/f.ts"}, cursorLine : {20},
   prefix : {<<"">>, <<"a", "">>}, suffix : {<<"">>},
   windowAroundCursor : {<<"a">>, <<"">>}, treePath : BOOLEAN,
   modelName : {[tok |-> [l \in LineSet |-> lineLength(l)], nl |-> 1]}]

InitOrch ==
  /\ orchPc = "collect"
  /\ orchVariant \in {"current", "walkOnly", "origin"}
  /\ orchOptions \in OptionSets
  /\ orchIn \in InputSets
  /\ orchSnippets = <<>>
  /\ orchScored = <<>>
  /\ orchFinal = <<>>
  /\ orchWork = {}
  /\ orchResult = <<>>

\* "origin" with useOtherFiles off: the whole block is skipped
SkipOtherFiles ==
  /\ orchPc = "collect"
  /\ orchVariant = "origin"
  /\ ~orchOptions.useOtherFiles
  /\ orchPc' = "return"
  /\ UNCHANGED <<orchVariant, orchOptions, orchIn, orchSnippets, orchScored,
                 orchFinal, orchWork, orchResult>>
  /\ UNCHANGED notOrch

\* what the recently-edited source pushes: nothing, or the matching range
recentlyEditedSnippets(options, prefix, matches) ==
  LET trimmed == trim(prefix)
      currentLinePrefix == trimmed[Len(trimmed)]
  IN IF /\ options.useRecentlyEdited
        /\ lineLength(currentLinePrefix)
             > options.recentLinePrefixMatchMinLength
       THEN [k \in 1..Len(matches) |->
               [filepath |-> matches[k].filepath,
                range |-> matches[k].range,
                contents |-> joinLines(matches[k].lines),
                score |-> 8]]
       ELSE <<>>

\* "origin" with useOtherFiles on: gather from the sources, then filter
CollectOrigin ==
  /\ orchPc = "collect"
  /\ orchVariant = "origin"
  /\ orchOptions.useOtherFiles
  /\ \E extraSnippets \in SeqsUpTo(ExtraCandidates, 1),
        matchingRange \in SeqsUpTo(RecentlyEditedRanges, 1),
        importSnippets \in SeqsUpTo(ImportDefinitions, 1),
        ctx \in SeqsUpTo(RootPathContext, 1) :
       LET gathered ==
             extraSnippets
             \o recentlyEditedSnippets(orchOptions, orchIn.prefix,
                                       matchingRange)
             \o (IF orchOptions.useImports THEN importSnippets ELSE <<>>)
             \o (IF orchOptions.useRootPathContext /\ orchIn.treePath
                   THEN ctx ELSE <<>>)
           keep(sn) == notEmptyNorInPrompt(sn, orchIn.prefix, orchIn.suffix)
       IN orchSnippets' = SelectSeq(gathered, keep)
  /\ orchWork' = orchWork \cup {"collect"}
  /\ orchPc' = "rank"
  /\ UNCHANGED <<orchVariant, orchOptions, orchIn, orchScored, orchFinal,
                 orchResult>>
  /\ UNCHANGED notOrch

\* "current": the loop over workspaceDirs, whatever options.useOtherFiles is
HarvestCurrent ==
  /\ orchPc = "collect"
  /\ orchVariant = "current"
  /\ \E fsys \in FileSystems(2), dirs \in WorkspaceDirLists(2) :
       orchSnippets' = harvestWorkspace(fsys, dirs)
  /\ orchWork' = orchWork \cup {"collect"}
  /\ orchPc' = "rank"
  /\ UNCHANGED <<orchVariant, orchOptions, orchIn, orchScored, orchFinal,
                 orchResult>>
  /\ UNCHANGED notOrch

\* "walkOnly": the paths walkDirAsync yields go to a local list and are lost
WalkWorkspace ==
  /\ orchPc = "collect"
  /\ orchVariant = "walkOnly"
  /\ orchWork' = orchWork \cup {"walk"}
  /\ orchPc' = "return"
  /\ UNCHANGED <<orchVariant, orchOptions, orchIn, orchSnippets, orchScored,
                 orchFinal, orchResult>>
  /\ UNCHANGED notOrch

Rank ==
  /\ orchPc = "rank"
  /\ orchScored' = rankSnippets(orchSnippets, orchIn.windowAroundCursor)
  /\ orchWork' = orchWork \cup {"rank"}
  /\ orchPc' = "exclude"
  /\ UNCHANGED <<orchVariant, orchOptions, orchIn, orchSnippets, orchFinal,
                 orchResult>>
  /\ UNCHANGED notOrch

ExcludePromptRange ==
  /\ orchPc = "exclude"
  /\ orchFinal' =
       removeRangeFromSnippets(
         orchScored, withoutScheme(orchIn.filepath),
         prefixSuffixRangeWithBuffer(orchIn.cursorLine, orchIn.prefix,
                                     orchIn.suffix))
  /\ orchPc' = "threshold"
  /\ UNCHANGED <<orchVariant, orchOptions, orchIn, orchSnippets, orchScored,
                 orchWork, orchResult>>
  /\ UNCHANGED notOrch

FilterByThreshold ==
  /\ orchPc = "threshold"
  /\ LET above(snippet) ==
           snippet.score >= orchOptions.recentlyEditedSimilarityThreshold
     IN orchFinal' = SelectSeq(orchFinal, above)
  /\ orchPc' = "fill"
  /\ UNCHANGED <<orchVariant, orchOptions, orchIn, orchSnippets, orchScored,
                 orchWork, orchResult>>
  /\ UNCHANGED notOrch

\* finalSnippets = fillPromptWithSnippets(scoredSnippets, ...);
\* snippets = finalSnippets
FillPrompt ==
  /\ orchPc = "fill"
  /\ LET filled == fillPromptWithSnippets(orchScored,
                                          maxSnippetTokens(orchOptions),
                                          orchIn.modelName)
     IN /\ orchFinal' = filled
        /\ orchSnippets' = filled
  /\ orchWork' = orchWork \cup {"pack"}
  /\ orchPc' = "return"
  /\ UNCHANGED <<orchVariant, orchOptions, orchIn, orchScored, orchResult>>
  /\ UNCHANGED notOrch

Return ==
  /\ orchPc = "return"
  /\ orchResult' = orchSnippets
  /\ orchPc' = "done"
  /\ UNCHANGED <<orchVariant, orchOptions, orchIn, orchSnippets, orchScored,
                 orchFinal, orchWork>>
  /\ UNCHANGED notOrch

NextOrch ==
  \/ SkipOtherFiles
  \/ CollectOrigin
  \/ HarvestCurrent
  \/ WalkWorkspace
  \/ Rank
  \/ ExcludePromptRange
  \/ FilterByThreshold
  \/ FillPrompt
  \/ Return

(***************************************************************************)
(* Claims about the prompt constructors                                    *)
(***************************************************************************)
ResultIndices == 1..Len(orchResult)

\* C2: with other-file context enabled, every snippet the constructor
\* returns has a score at or above options.recentlyEditedSimilarityThreshold.
C2_ResultAboveThreshold ==
  (/\ orchPc = "done"
   /\ \/ orchVariant = "current"
      \/ orchVariant = "origin" /\ orchOptions.useOtherFiles)
  => \A k \in ResultIndices :
       orchResult[k].score >= orchOptions.recentlyEditedSimilarityThreshold

\* C3: no returned snippet of the file being edited has a line range that
\* intersects [cursorLine - prefixLines - 8, cursorLine + suffixLines + 8].
C3_ResultOutsidePromptRange ==
  orchPc = "done"
  => \A k \in ResultIndices :
       orchResult[k].filepath = withoutScheme(orchIn.filepath)
       => rangeIntersectionByLines(
            prefixSuffixRangeWithBuffer(orchIn.cursorLine, orchIn.prefix,
                                        orchIn.suffix),
            orchResult[k].range) = <<>>

\* C8: when options.useOtherFiles is off the constructor collects, ranks
\* and packs nothing, and returns an empty snippet list.
C8_DisabledReturnsNothing ==
  (orchPc = "done" /\ ~orchOptions.useOtherFiles)
  => /\ orchResult = <<>>
     /\ orchWork \cap {"collect", "rank", "pack"} = {}

(***************************************************************************)
(* The bounded file reader, byte by byte.  A file is its size in bytes and *)
(* the file-system call that throws on it, if any.  A string decoded from  *)
(* a buffer is the number of leading bytes that came from the file and the *)
(* number of NUL characters that follow them; "" has none of either.       *)
(***************************************************************************)
MaxReadSize == 4   \* largest small maxSize tried besides MAX_FILE_SIZE

Decoded(data, nul) == [data |-> data, nul |-> nul]

EmptyContent == Decoded(0, 0)

\* Buffer.alloc(maxSize) is zero-filled; fd.read(buffer, 0, maxSize, 0) stores
\* the first maxSize bytes of the file, or all of them when there are fewer
bufferAfterRead(size, maxSize) ==
  LET bytesRead == Min2(size, maxSize)
  IN [fromFile |-> bytesRead, zero |-> maxSize - bytesRead]

\* buffer.toString('utf-8'): every byte of the buffer is decoded
bufferToString(buffer) == Decoded(buffer.fromFile, buffer.zero)

\* readFileWithSizeCheck on the bytes of the file
readBytesWithSizeCheck(file, maxSize) ==
  IF file.throws = "stat" THEN EmptyContent
  ELSE IF file.size < 10 * maxSize
    THEN IF file.throws \in {"open", "read", "close"} THEN EmptyContent
         ELSE bufferToString(bufferAfterRead(file.size, maxSize))
  ELSE EmptyContent

ReadSizes == (1..MaxReadSize) \cup {MAX_FILE_SIZE}

FileSizesFor(maxSize) ==
  {0, maxSize - 1, maxSize, maxSize + 1, 10 * maxSize - 1, 10 * maxSize,
   10 * maxSize + 1}
  \cup (0..(10 * MaxReadSize + 1))

InitRead ==
  /\ readPc = "call"
  /\ readMaxSize \in ReadSizes
  /\ readFile \in [size : FileSizesFor(readMaxSize),
                   throws : {"none", "stat", "open", "read", "close"}]
  /\ readResult = EmptyContent

ReadFileWithSizeCheck ==
  /\ readPc = "call"
  /\ readResult' = readBytesWithSizeCheck(readFile, readMaxSize)
  /\ readPc' = "done"
  /\ UNCHANGED <<readFile, readMaxSize>>
  /\ UNCHANGED notRead

NextRead == ReadFileWithSizeCheck

\* C11: the reader returns "" for a file of exactly 10 * maxSize bytes, and
\* for a readable file of maxSize - 1 bytes it returns exactly the bytes of
\* the file, nothing added and nothing dropped.
C11_ReadBoundaries ==
  (readPc = "done" /\ readFile.throws = "none")
  => /\ readFile.size = 10 * readMaxSize => readResult = EmptyContent
     /\ readFile.size = readMaxSize - 1
          => readResult = Decoded(readFile.size, 0)

(***************************************************************************)
(* Specification of the similarity: two texts are drawn in Init and        *)
(* Compare calls jaccardSimilarity on them in both orders and on the first *)
(* with itself.  Similarities are in tenths, as scores are.                *)
(***************************************************************************)
MaxSimLines == 2   \* lines of a compared text

SimLineSet == {"", " ", "+", "1", "1a", "a", "b", "a b", "A"}

SimTexts == {t \in SeqsUpTo(SimLineSet, MaxSimLines) : t # <<>>}

InitSim ==
  /\ simPc = "call"
  /\ simA \in SimTexts
  /\ simB \in SimTexts
  /\ simAB = 0
  /\ simBA = 0
  /\ simAA = 0

Compare ==
  /\ simPc = "call"
  /\ simAB' = jaccardSimilarity(simA, simB)
  /\ simBA' = jaccardSimilarity(simB, simA)
  /\ simAA' = jaccardSimilarity(simA, simA)
  /\ simPc' = "done"
  /\ UNCHANGED <<simA, simB>>
  /\ UNCHANGED notSim

NextSim == Compare

\* no line of the text holds an identifier: only blanks, punctuation, digits
HasNoSymbol(text) ==
  \A i \in 1..Len(text) : text[i] \in {"", " ", "+", "1", "1a"}

C13_Symmetric ==
  simPc = "done"
  => /\ simAB = simBA
     /\ (HasNoSymbol(simA) /\ HasNoSymbol(simB)) => simAB = 0

C13_Witness ==
  /\ simPc = "done"
  /\ simA = <<"a">>
  /\ simB = <<"b", "a">>
  /\ simAB = 5
  /\ simBA = 5

(***************************************************************************)
(* Specification of the range algebra: two ranges are drawn in Init and    *)
(* Apply calls the intersection and the difference on them, and on the     *)
(* first range with itself.                                                *)
(***************************************************************************)
MaxRangeLine == 3  \* largest line number of a drawn range

Positions == {Pos(l, c) : l \in 0..MaxRangeLine, c \in {0, 1}}

Ranges == [start : Positions, end : Positions]

InitRange ==
  /\ rangePc = "call"
  /\ rangeA \in Ranges
  /\ rangeB \in Ranges
  /\ rangeInter = <<>>
  /\ rangeDiff = <<>>
  /\ rangeSelfInter = <<>>
  /\ rangeSelfDiff = <<>>

Apply ==
  /\ rangePc = "call"
  /\ rangeInter' = rangeIntersectionByLines(rangeA, rangeB)
  /\ rangeDiff' = rangeDifferenceByLines(rangeA, rangeB)
  /\ rangeSelfInter' = rangeIntersectionByLines(rangeA, rangeA)
  /\ rangeSelfDiff' = rangeDifferenceByLines(rangeA, rangeA)
  /\ rangePc' = "done"
  /\ UNCHANGED <<rangeA, rangeB>>
  /\ UNCHANGED notRange

NextRange == Apply

\* C14 as stated: rangeDifferenceByLines(r, r) is the empty list, and for a
\* range r with start.line < end.line rangeIntersectionByLines(r, r) is a
\* range equal to r.
C14_SelfDifferenceAndIntersection ==
  rangePc = "done"
  => /\ rangeSelfDiff = <<>>
     /\ rangeA.start.line < rangeA.end.line => rangeSelfInter = <<rangeA>>

\* C14 as amended: rangeDifferenceByLines(r, r) is the empty list, and for a
\* range r with start.line < end.line rangeIntersectionByLines(r, r) is the
\* range with the start and end lines of r and character 0 at both ends.
C14_SelfIntersectionByLines ==
  rangePc = "done"
  => /\ rangeSelfDiff = <<>>
     /\ rangeA.start.line < rangeA.end.line
          => rangeSelfInter = << [start |-> Pos(rangeA.start.line, 0),
                                  end |-> Pos(rangeA.end.line, 0)] >>

C14_Witness ==
  /\ rangePc = "done"
  /\ rangeA.start.line < rangeA.end.line
  /\ rangeA.start.character = 1
  /\ rangeSelfInter # <<>>
  /\ rangeSelfInter[1].start.line = rangeA.start.line
  /\ rangeSelfDiff = <<>>

WellFormed(r) == r.start.line <= r.end.line

\* C15: when remove lies entirely before or entirely after orig,
\* rangeDifferenceByLines(orig, remove) is [orig]; and no returned range
\* extends outside orig.
C15_DifferenceStaysInside ==
  (rangePc = "done" /\ WellFormed(rangeA) /\ WellFormed(rangeB))
  => /\ ( \/ rangeB.end.line < rangeA.start.line
          \/ rangeB.start.line > rangeA.end.line )
        => rangeDiff = <<rangeA>>
     /\ \A k \in 1..Len(rangeDiff) :
          /\ rangeDiff[k].start.line >= rangeA.start.line
          /\ rangeDiff[k].end.line <= rangeA.end.line

(***************************************************************************)
(* rankSnippets and the caller's objects.  `ranges.map((snippet) =>        *)
(* ({score: ..., ...snippet}))` copies each snippet one level deep: the    *)
(* copy has its own score and contents fields and shares the range object  *)
(* of the caller's snippet.  A copy carries in `ref` the index of the      *)
(* caller's snippet whose range object it shares, so that what             *)
(* mergeSnippetsByRange assigns to last.range.end is seen on that object.  *)
(***************************************************************************)
withRef(snippet, i) ==
  [f \in DOMAIN snippet \cup {"ref"} |->
     IF f = "ref" THEN i ELSE snippet[f]]

withoutRef(snippet) == [f \in DOMAIN snippet \ {"ref"} |-> snippet[f]]

\* the snippets rankSnippets works on and returns, with their range objects
rankedObjects(ranges, windowAroundCursor) ==
  rankSnippets([i \in 1..Len(ranges) |-> withRef(ranges[i], i)],
               windowAroundCursor)

\* what rankSnippets returns
rankResult(ranges, windowAroundCursor) ==
  LET ranked == rankedObjects(ranges, windowAroundCursor)
  IN [k \in 1..Len(ranked) |-> withoutRef(ranked[k])]

\* the caller's snippets after the call: a range object that ended up in a
\* returned snippet holds whatever the merge left in it
callerSnippetsAfterRank(ranges, windowAroundCursor) ==
  LET ranked == rankedObjects(ranges, windowAroundCursor)
      sharing(i) == {k \in 1..Len(ranked) : ranked[k].ref = i}
  IN [i \in 1..Len(ranges) |->
        IF sharing(i) = {} THEN ranges[i]
        ELSE [ranges[i] EXCEPT
                !.range = ranked[CHOOSE k \in sharing(i) : TRUE].range]]

RankCandidates ==
  MergeCandidates
  \cup {[c EXCEPT !.score = NoScore] : c \in MergeCandidates}

InitRank ==
  /\ rankPc = "first"
  /\ rankIn \in {l \in SeqsUpTo(RankCandidates, MaxMergeSnips) :
                   \A i \in 1..Len(l) :
                     l[i].range.start.line <= l[i].range.end.line}
  /\ rankWindow \in {<<"a">>, <<"">>}
  /\ rankHeap = rankIn
  /\ rankOut = <<>>
  /\ rerankOut = <<>>

RankFirst ==
  /\ rankPc = "first"
  /\ rankOut' = rankResult(rankHeap, rankWindow)
  /\ rankHeap' = callerSnippetsAfterRank(rankHeap, rankWindow)
  /\ rankPc' = "second"
  /\ UNCHANGED <<rankIn, rankWindow, rerankOut>>
  /\ UNCHANGED notRank

RankSecond ==
  /\ rankPc = "second"
  /\ rerankOut' = rankResult(rankHeap, rankWindow)
  /\ rankHeap' = callerSnippetsAfterRank(rankHeap, rankWindow)
  /\ rankPc' = "done"
  /\ UNCHANGED <<rankIn, rankWindow, rankOut>>
  /\ UNCHANGED notRank

NextRank == RankFirst \/ RankSecond

\* C20: rankSnippets leaves the caller's snippets as they were (range,
\* contents and score), and a second call on the same snippet objects
\* returns what the first returned.
C20_RankLeavesInputsAlone ==
  /\ rankPc # "first" => rankHeap = rankIn
  /\ rankPc = "done" => rerankOut = rankOut

(***************************************************************************)
(* Specifications                                                          *)
(***************************************************************************)
InitSpecFill ==
  /\ InitFill
  /\ IdleMerge
  /\ IdleChunk
  /\ IdleWalk
  /\ IdleOrch
  /\ IdleRead
  /\ IdleSim
  /\ IdleRange
  /\ IdleRank

SpecFill == InitSpecFill /\ [][NextFill]_vars

InitSpecMerge ==
  /\ InitMerge
  /\ IdleFill
  /\ IdleChunk
  /\ IdleWalk
  /\ IdleOrch
  /\ IdleRead
  /\ IdleSim
  /\ IdleRange
  /\ IdleRank

SpecMerge == InitSpecMerge /\ [][NextMerge]_vars

InitSpecChunk ==
  /\ InitChunk
  /\ IdleFill
  /\ IdleMerge
  /\ IdleWalk
  /\ IdleOrch
  /\ IdleRead
  /\ IdleSim
  /\ IdleRange
  /\ IdleRank

SpecChunk == InitSpecChunk /\ [][NextChunk]_vars

InitSpecWalk ==
  /\ InitWalk
  /\ IdleFill
  /\ IdleMerge
  /\ IdleChunk
  /\ IdleOrch
  /\ IdleRead
  /\ IdleSim
  /\ IdleRange
  /\ IdleRank

SpecWalk == InitSpecWalk /\ [][NextWalk]_vars

InitSpecOrch ==
  /\ InitOrch
  /\ IdleFill
  /\ IdleMerge
  /\ IdleChunk
  /\ IdleWalk
  /\ IdleRead
  /\ IdleSim
  /\ IdleRange
  /\ IdleRank

SpecOrch == InitSpecOrch /\ [][NextOrch]_vars

InitSpecRead ==
  /\ InitRead
  /\ IdleFill
  /\ IdleMerge
  /\ IdleChunk
  /\ IdleWalk
  /\ IdleOrch
  /\ IdleSim
  /\ IdleRange
  /\ IdleRank

SpecRead == InitSpecRead /\ [][NextRead]_vars

InitSpecSim ==
  /\ InitSim
  /\ IdleFill
  /\ IdleMerge
  /\ IdleChunk
  /\ IdleWalk
  /\ IdleOrch
  /\ IdleRead
  /\ IdleRange
  /\ IdleRank

SpecSim == InitSpecSim /\ [][NextSim]_vars

InitSpecRange ==
  /\ InitRange
  /\ IdleFill
  /\ IdleMerge
  /\ IdleChunk
  /\ IdleWalk
  /\ IdleOrch
  /\ IdleRead
  /\ IdleSim
  /\ IdleRank

SpecRange == InitSpecRange /\ [][NextRange]_vars

InitSpecRank ==
  /\ InitRank
  /\ IdleFill
  /\ IdleMerge
  /\ IdleChunk
  /\ IdleWalk
  /\ IdleOrch
  /\ IdleRead
  /\ IdleSim
  /\ IdleRange

SpecRank == InitSpecRank /\ [][NextRank]_vars

====
